---- MODULE Spec2Model ----
(***************************************************************************)
(* Model of tools/TTS/model_updater.py: the ModelUpdateChecker class, its  *)
(* JSON cache file <model_path>/.model_cache.json, the model directories   *)
(* under the storage root and the identifier <-> directory-name mapping;   *)
(* and of tools/TTS/tts_cli.py: get_model_path, check_model_updates,       *)
(* generate_speech and process_args.                                       *)
(*                                                                         *)
(* Strings the code transforms (model identifiers, directory names, cache  *)
(* keys) are sequences of one-character strings.  Time is in whole seconds *)
(* (datetime.now().timestamp()).  A JSON value of the cache file is a      *)
(* record that says whether it is a dict and which of the fields           *)
(* 'timestamp' and 'updates_available' it carries.                         *)
(***************************************************************************)
EXTENDS Integers, Sequences, FiniteSets, TLC

VARIABLES
    now,     \* the wall clock, datetime.now().timestamp()
    file,    \* <model_path>/.model_cache.json
    fs,      \* the storage root: directory name -> set of files in it
    last,    \* observation of the most recent call on the checker
    prev,    \* observation of the call before it
    ident,   \* name mapping: the identifier given
    dname,   \* name mapping: model_name.replace('/', '--')
    rname,   \* name mapping: item.name.replace('--', '/')
    dname2,  \* name mapping: the directory name of rname
    npc,     \* name mapping: how many of the three conversions were made
    root,    \* whether the storage root exists
    scan,    \* observation of the most recent call on the scanner
    race,    \* two processes that each run check_for_updates once
    cli,     \* observation of the most recent call on the command-line tool
    run      \* observation of the most recent run of the one-click runner

vars ==
    <<now, file, fs, last, prev, ident, dname, rname, dname2, npc, root, scan,
      race, cli, run>>

cacheVars == <<now, file, fs, last, prev>>
nameVars == <<ident, dname, rname, dname2, npc>>
auxVars == <<root, scan, race, cli, run>>

(***************************************************************************)
(* Program constants and bounds.                                           *)
(***************************************************************************)
RateLimit == 3600
Retention == 7 * 24 * 3600

\* The clock starts at Epoch (any instant later than 7 days after 1970).
Epoch == 1000000
\* Instants within Slack seconds of Epoch, Epoch + RateLimit, Epoch + Retention.
Slack == 1
\* Identifiers of the name mapping have at most MaxLen characters.
MaxLen == 4

Times ==
    { Epoch + b + d : b \in {0, RateLimit, Retention}, d \in (0 - Slack)..Slack }
        \cap { t \in Int : t >= Epoch }

MaxTime == Epoch + Retention + Slack

(***************************************************************************)
(* The identifier <-> directory-name mapping.                              *)
(***************************************************************************)
Alphabet == {"a", "-", "/"}

RECURSIVE toDirName(_)
\* model_name.replace('/', '--')
toDirName(s) ==
    IF s = <<>> THEN <<>>
    ELSE IF Head(s) = "/" THEN <<"-", "-">> \o toDirName(Tail(s))
    ELSE <<Head(s)>> \o toDirName(Tail(s))

RECURSIVE toModelId_first(_, _)
\* a replace that stops after the first occurrence (str.replace(old, new, 1))
toModelId_first(s, done) ==
    IF s = <<>> THEN <<>>
    ELSE IF ~done /\ Len(s) >= 2 /\ s[1] = "-" /\ s[2] = "-"
         THEN <<"/">> \o toModelId_first(SubSeq(s, 3, Len(s)), TRUE)
    ELSE <<Head(s)>> \o toModelId_first(Tail(s), done)

toModelId_once(s) == toModelId_first(s, FALSE)

RECURSIVE toModelId_single(_)
\* item.name.replace('-', '/'): every single dash replaced
toModelId_single(s) ==
    IF s = <<>> THEN <<>>
    ELSE IF Head(s) = "-" THEN <<"/">> \o toModelId_single(Tail(s))
    ELSE <<Head(s)>> \o toModelId_single(Tail(s))

RECURSIVE toModelId(_)
\* item.name.replace('--', '/'): leftmost, non-overlapping occurrences
toModelId(s) ==
    IF s = <<>> THEN <<>>
    ELSE IF Len(s) >= 2 /\ s[1] = "-" /\ s[2] = "-"
         THEN <<"/">> \o toModelId(SubSeq(s, 3, Len(s)))
    ELSE <<Head(s)>> \o toModelId(Tail(s))

(***************************************************************************)
(* JSON values of the cache file.                                          *)
(***************************************************************************)
\* {'timestamp': t, 'updates_available': u}
Rec(t, u) ==
    [dict |-> TRUE, has_ts |-> TRUE, timestamp |-> t,
     has_ua |-> TRUE, updates_available |-> u, data |-> ""]

\* {'updates_available': u}: a record without a timestamp
RecNoTs(u) ==
    [dict |-> TRUE, has_ts |-> FALSE, timestamp |-> 0,
     has_ua |-> TRUE, updates_available |-> u, data |-> ""]

\* {'timestamp': t, 'data': d}: a timestamped record without a result
RecData(t, d) ==
    [dict |-> TRUE, has_ts |-> TRUE, timestamp |-> t,
     has_ua |-> FALSE, updates_available |-> FALSE, data |-> d]

\* {'data': d}: legacy data without a timestamp
Legacy(d) ==
    [dict |-> TRUE, has_ts |-> FALSE, timestamp |-> 0,
     has_ua |-> FALSE, updates_available |-> FALSE, data |-> d]

\* a value that is not a dict ('value', 1234567890)
Scalar(d) ==
    [dict |-> FALSE, has_ts |-> FALSE, timestamp |-> 0,
     has_ua |-> FALSE, updates_available |-> FALSE, data |-> d]

\* value.get('timestamp', default)
GetTimestamp(v, default) == IF v.has_ts THEN v.timestamp ELSE default

\* value.get('updates_available', default)
GetUpdatesAvailable(v, default) ==
    IF v.has_ua THEN v.updates_available ELSE default

EmptyMap == [k \in {} |-> Scalar("")]

\* cache.setdefault(key, value): an entry already there is kept
Put_setdefault(m, key, value) ==
    [k \in DOMAIN m \cup {key} |-> IF k \in DOMAIN m THEN m[k] ELSE value]

\* cache = {key: value}: a new mapping that holds the one entry
Put_alone(m, key, value) == [k \in {key} |-> value]

\* cache[key] = value
Put(m, key, value) ==
    [k \in DOMAIN m \cup {key} |-> IF k = key THEN value ELSE m[k]]

\* for key in keys: del cache[key]
Without(m, keys) == [k \in DOMAIN m \ keys |-> m[k]]

(***************************************************************************)
(* The cache file: json.dump / json.load.                                  *)
(***************************************************************************)
\* A file that cannot be opened for reading (writing) has readable
\* (writable) false: open() raises an OSError.
Absent ==
    [exists |-> FALSE, wellformed |-> FALSE, entries |-> <<>>,
     readable |-> TRUE, writable |-> TRUE]
Corrupt ==
    [exists |-> TRUE, wellformed |-> FALSE, entries |-> <<>>,
     readable |-> TRUE, writable |-> TRUE]

RECURSIVE KeyList(_)
KeyList(S) ==
    IF S = {} THEN <<>>
    ELSE LET k == CHOOSE x \in S : TRUE IN <<k>> \o KeyList(S \ {k})

\* json.dump(data, f): the members of the mapping, one after the other
json_dump(data) ==
    LET ks == KeyList(DOMAIN data)
    IN  [i \in 1..Len(ks) |-> [key |-> ks[i], value |-> data[ks[i]]]]

\* json.load(f): a later member of the same name wins
json_load(entries) ==
    LET ks == { entries[i].key : i \in DOMAIN entries }
        lastOf(k) == CHOOSE i \in DOMAIN entries :
                        /\ entries[i].key = k
                        /\ \A j \in DOMAIN entries : entries[j].key = k => j <= i
    IN  [k \in ks |-> entries[lastOf(k)].value]

\* load_cache without its try/except: json.load's error reaches the caller
load_cache_unguarded(f) ==
    IF f.exists
    THEN IF f.readable /\ f.wellformed
         THEN [raised |-> FALSE, warned |-> FALSE, value |-> json_load(f.entries)]
         ELSE [raised |-> TRUE, warned |-> FALSE, value |-> EmptyMap]
    ELSE [raised |-> FALSE, warned |-> FALSE, value |-> EmptyMap]

load_cache(f) ==
    IF f.exists
    THEN IF f.readable /\ f.wellformed
         THEN [raised |-> FALSE, warned |-> FALSE, value |-> json_load(f.entries)]
         ELSE \* except Exception as e: logger.warning(...)
              [raised |-> FALSE, warned |-> TRUE, value |-> EmptyMap]
    ELSE [raised |-> FALSE, warned |-> FALSE, value |-> EmptyMap]

\* a save that opens the file for update and keeps the members it does not rewrite
save_cache_merge(f, data) ==
    LET old == load_cache(f).value
    IN  [exists |-> TRUE, wellformed |-> TRUE,
         entries |-> json_dump([k \in DOMAIN old \cup DOMAIN data |->
                                   IF k \in DOMAIN data THEN data[k] ELSE old[k]]),
         readable |-> f.readable, writable |-> TRUE]

\* open(cache_file, 'w'); json.dump(data, f): the whole file is replaced;
\* when mkdir or open raises, the except clause logs and the file stays
save_cache(f, data) ==
    IF f.writable
    THEN [exists |-> TRUE, wellformed |-> TRUE, entries |-> json_dump(data),
          readable |-> f.readable, writable |-> TRUE]
    ELSE f

\* save_cache without its try/except: the error of mkdir or open reaches
\* the caller
save_cache_raised_uncaught(f) == ~f.writable

\* whether save_cache raises: "except Exception as e" catches the error
save_cache_raised(f) == FALSE

\* whether save_cache logs "Failed to save cache"
save_cache_warned(f) == ~f.writable

(***************************************************************************)
(* The model directory scanner.                                            *)
(***************************************************************************)
M1 == <<"a", "/", "b">>
M2 == <<"c">>
Models == {M1, M2}

\* for pattern in ['*.pth', '*.pt', '*.json', '*.ckpt']
Patterns == <<"pth", "pt", "json", "ckpt">>

RECURSIVE FileList(_)
FileList(S) ==
    IF S = {} THEN <<>>
    ELSE LET f == CHOOSE x \in S : TRUE IN <<f>> \o FileList(S \ {f})

\* model_dir.glob(pattern): the files of the directory with that extension
Glob(entry, ext) ==
    IF entry.is_dir THEN FileList({ f \in entry.files : f.ext = ext }) ELSE <<>>

RECURSIVE GlobAll(_, _)
\* model_files.extend(model_dir.glob(pattern)) for the patterns from i on
GlobAll(entry, i) ==
    IF i > Len(Patterns) THEN <<>>
    ELSE Glob(entry, Patterns[i]) \o GlobAll(entry, i + 1)

\* max(model_files, key=lambda f: f.stat().st_mtime).stat().st_mtime
LatestMtime(model_files) ==
    LET ms == { model_files[i].mtime : i \in DOMAIN model_files }
    IN  CHOOSE x \in ms : \A y \in ms : y <= x

NoInfo ==
    [found |-> FALSE, name |-> <<>>, path |-> <<>>, exists |-> FALSE,
     has_last_modified |-> FALSE, last_modified |-> 0, files |-> <<>>]

\* get_local_model_info without "if not model_dir.exists(): return None"
get_local_model_info_no_exists_check(fsys, model_name) ==
    [found |-> TRUE, name |-> model_name, path |-> toDirName(model_name),
     exists |-> TRUE, has_last_modified |-> FALSE, last_modified |-> 0,
     files |-> <<>>]

get_local_model_info(fsys, model_name) ==
    LET model_dir_name == toDirName(model_name)
    IN  IF model_dir_name \notin DOMAIN fsys THEN NoInfo
        ELSE LET model_files == GlobAll(fsys[model_dir_name], 1)
             IN  [found |-> TRUE, name |-> model_name, path |-> model_dir_name,
                  exists |-> TRUE,
                  has_last_modified |-> model_files /= <<>>,
                  last_modified |-> IF model_files /= <<>>
                                    THEN LatestMtime(model_files) ELSE 0,
                  files |-> [i \in DOMAIN model_files |-> model_files[i].name]]

\* local_info.get('last_modified', 0)
GetLastModified(info) ==
    IF info.has_last_modified THEN info.last_modified ELSE 0

NoRemote == [some |-> FALSE, has_last_modified |-> FALSE, last_modified |-> 0]

\* a lookup that answers with a time later than every local file's
check_remote_model_info_answering(model_name) ==
    [some |-> TRUE, has_last_modified |-> TRUE, last_modified |-> MaxTime]

\* the placeholder: "For now, return None"
check_remote_model_info(model_name) == NoRemote

\* remote_info.get('last_modified', 0)
GetRemoteLastModified(info) ==
    IF info.has_last_modified THEN info.last_modified ELSE 0

\* the comparison made inclusive: "remote_time >= local_time"
UpdatesAvailable_inclusive(remote_info, local_info) ==
    /\ remote_info.some
    /\ GetRemoteLastModified(remote_info) >= GetLastModified(local_info)

\* "if remote_info:" ... "updates_available = remote_time > local_time"
UpdatesAvailable(remote_info, local_info) ==
    /\ remote_info.some
    /\ GetRemoteLastModified(remote_info) > GetLastModified(local_info)

(***************************************************************************)
(* check_for_updates and cleanup_cache.                                    *)
(***************************************************************************)
\* cache_key = f"update_check_{model_name}"
CacheKey(model_name) == <<"update_check_">> \o model_name

\* the comparison turned round: "if time_diff > 3600"
RecentlyChecked_inverted(cache, key, t) ==
    /\ key \in DOMAIN cache
    /\ t - GetTimestamp(cache[key], 0) > RateLimit

\* the comparison made inclusive: "if time_diff <= 3600"
RecentlyChecked_inclusive(cache, key, t) ==
    /\ key \in DOMAIN cache
    /\ t - GetTimestamp(cache[key], 0) <= RateLimit

\* "if time_diff < 3600": the entry answers the call
RecentlyChecked(cache, key, t) ==
    /\ key \in DOMAIN cache
    /\ t - GetTimestamp(cache[key], 0) < RateLimit

\* What check_for_updates does from line 134 on, at time t, when load_cache
\* returned loaded, the cache file is now f and the remote lookup answers
\* remote_info: its return value, the cache file it leaves, and how often it
\* scanned, looked up and saved.
check_from_cache(loaded, f, fsys, t, model_name, force_check, remote_info) ==
    LET cache == loaded.value
        cache_key == CacheKey(model_name)
        local_info == get_local_model_info(fsys, model_name)
        updates_available == UpdatesAvailable(remote_info, local_info)
        load_warnings == IF loaded.warned THEN 1 ELSE 0
    IN  IF ~force_check /\ RecentlyChecked(cache, cache_key, t)
        THEN [ret |-> GetUpdatesAvailable(cache[cache_key], FALSE), file |-> f,
              hit |-> TRUE, found |-> FALSE, scans |-> 0, remotes |-> 0,
              saves |-> 0, raised |-> loaded.raised,
              warnings |-> load_warnings]
        ELSE IF ~local_info.found
        THEN [ret |-> FALSE, file |-> f,
              hit |-> FALSE, found |-> FALSE, scans |-> 1, remotes |-> 0,
              saves |-> 0, raised |-> loaded.raised,
              warnings |-> load_warnings]
        ELSE [ret |-> updates_available,
              file |-> save_cache(f, Put(cache, cache_key,
                                         Rec(t, updates_available))),
              hit |-> FALSE, found |-> TRUE, scans |-> 1, remotes |-> 1,
              saves |-> 1,
              raised |-> loaded.raised \/ save_cache_raised(f),
              warnings |-> load_warnings
                               + (IF save_cache_warned(f) THEN 1 ELSE 0)]

\* a call that, when it answers from the cache, stamps the entry anew
check_with_remote_sliding(f, fsys, t, model_name, force_check, remote_info) ==
    LET r == check_from_cache(load_cache(f), f, fsys, t, model_name,
                              force_check, remote_info)
    IN  IF r.hit
        THEN [r EXCEPT !.file = save_cache(f, Put(load_cache(f).value,
                                                  CacheKey(model_name),
                                                  Rec(t, r.ret)))]
        ELSE r

\* One call of check_for_updates that nothing interrupts: "cache =
\* self.load_cache()" and the rest.
check_with_remote(f, fsys, t, model_name, force_check, remote_info) ==
    check_from_cache(load_cache(f), f, fsys, t, model_name, force_check,
                     remote_info)

\* remote_info = self.check_remote_model_info(model_name)
check_for_updates(f, fsys, t, model_name, force_check) ==
    check_with_remote(f, fsys, t, model_name, force_check,
                      check_remote_model_info(model_name))

\* the comparison made inclusive: ">= 7 * 24 * 3600"
TooOld_inclusive(value, t) ==
    /\ value.dict
    /\ value.has_ts
    /\ t - value.timestamp >= Retention

\* value.get('timestamp', 0) in place of the test "'timestamp' in value"
TooOld_default_zero(value, t) ==
    /\ value.dict
    /\ t - GetTimestamp(value, 0) > Retention

\* "if current_time - value['timestamp'] > 7 * 24 * 3600"
TooOld(value, t) ==
    /\ value.dict
    /\ value.has_ts
    /\ t - value.timestamp > Retention

\* What one call of cleanup_cache does at time t; its body is one try block
\* whose except clause logs, so nothing is raised.
cleanup_cache(f, t) ==
    IF f.exists
    THEN LET cache == load_cache(f).value
             keys_to_remove == { k \in DOMAIN cache : TooOld(cache[k], t) }
         IN  [file |-> save_cache(f, Without(cache, keys_to_remove)),
              removed |-> Cardinality(keys_to_remove), saves |-> 1,
              raised |-> FALSE,
              warnings |-> (IF load_cache(f).warned THEN 1 ELSE 0)
                               + (IF save_cache_warned(f) THEN 1 ELSE 0)
                               + (IF load_cache(f).raised \/ save_cache_raised(f)
                                  THEN 1 ELSE 0)]
    ELSE [file |-> f, removed |-> 0, saves |-> 0, raised |-> FALSE,
          warnings |-> 0]

(***************************************************************************)
(* The calls on one ModelUpdateChecker, in one process, and the clock.     *)
(***************************************************************************)
\* What is observed of a call: its arguments, the time, what it returned and
\* how often it scanned the directory, looked up the remote and saved.
NoCall ==
    [op |-> "none", model |-> <<>>, force |-> FALSE, time |-> 0,
     ret |-> FALSE, map |-> EmptyMap, raised |-> FALSE, hit |-> FALSE,
     found |-> FALSE, scans |-> 0, remotes |-> 0, saves |-> 0, removed |-> 0,
     soon |-> FALSE, fresh |-> FALSE, warnings |-> 0, stub |-> NoRemote]

\* What is kept of the call before the most recent one.
Earlier(c) ==
    [op |-> c.op, model |-> c.model, force |-> c.force, ret |-> c.ret,
     hit |-> c.hit,
     map |-> IF c.op = "save" THEN c.map ELSE EmptyMap]

\* Less than an hour has passed since the most recent call.
Soon == last.op /= "none" /\ now - last.time < RateLimit

\* The mapping the cache file holds (none when it is absent or unparseable).
Persisted(f) ==
    IF f.exists /\ f.wellformed
    THEN [k \in { f.entries[i].key : i \in DOMAIN f.entries } |->
             LET i == CHOOSE j \in DOMAIN f.entries : f.entries[j].key = k
             IN  f.entries[i].value]
    ELSE EmptyMap

\* The file holds an entry for the model stamped less than an hour before t.
EntryYoungerThanHour(f, model_name, t) ==
    LET key == <<"update_check_">> \o model_name
    IN  /\ key \in DOMAIN Persisted(f)
        /\ \/ ~Persisted(f)[key].has_ts /\ t < 3600
           \/ Persisted(f)[key].has_ts /\ t - Persisted(f)[key].timestamp < 3600

\* The storage root of the cache runs: M1's directory with two model files
\* and another file; M2 has no directory.
FsModels ==
    [d \in {toDirName(M1)} |->
        [is_dir |-> TRUE,
         files |-> { [name |-> "model.pth", ext |-> "pth", mtime |-> Epoch],
                     [name |-> "config.json", ext |-> "json", mtime |-> Epoch + 1],
                     [name |-> "README.md", ext |-> "md", mtime |-> Epoch + 2] }]]

FsEmpty == [d \in {} |-> [is_dir |-> TRUE, files |-> {}]]

K1 == CacheKey(M1)
K2 == CacheKey(M2)

\* The mappings handed to save_cache (those of the tests among them): records
\* stamped at Epoch, long ago (0) and in the future, records without a
\* timestamp, legacy data and values that are no records.
SaveInputs ==
    { EmptyMap,
      (<<"key">> :> Scalar("value")) @@ (<<"timestamp">> :> Scalar("1234567890")),
      (<<"old_key">> :> RecData(0, "test"))
          @@ (<<"recent_key">> :> RecData(MaxTime + 1, "recent"))
          @@ (<<"key">> :> Legacy("x")),
      (K1 :> Rec(Epoch, TRUE)) @@ (<<"old_key">> :> RecData(Epoch, "test")),
      (K1 :> Rec(Epoch, FALSE)) @@ (K2 :> Rec(Epoch, TRUE)),
      (K1 :> RecNoTs(TRUE)) @@ (K2 :> RecData(Epoch, "n")) }

\* No call was made on the scanner.
NoScan == [op |-> "none", model |-> <<>>, info |-> NoInfo, list |-> <<>>]

\* The processes of the two-process runs and the model each one checks.
Procs == {1, 2}
ModelOf(p) == IF p = 1 THEN M1 ELSE M2

\* Neither process has begun.
NoRace ==
    [pc |-> [p \in Procs |-> "start"],
     loaded |-> [p \in Procs |-> load_cache(Absent)],
     force |-> [p \in Procs |-> FALSE],
     ret |-> [p \in Procs |-> FALSE],
     hit |-> [p \in Procs |-> FALSE],
     overlap |-> FALSE]

(***************************************************************************)
(* tts_cli.py: TTSCLI.get_model_path, check_model_updates,                 *)
(* generate_speech and process_args.                                       *)
(***************************************************************************)
\* str(self.model_manager.output_prefix) and a value of COQUI_MODEL_PATH
OutputPrefix == <<"/", "t", "t", "s">>
CustomPath == <<"/", "c", "u", "s", "t", "o", "m", "/", "p", "a", "t", "h">>

\* The environment: whether COQUI_MODEL_PATH is set, its value, and whether
\* os.path.exists is true of the value.
Envs ==
    { [set |-> FALSE, value |-> <<>>, on_disk |-> FALSE],
      [set |-> TRUE, value |-> <<>>, on_disk |-> FALSE],
      [set |-> TRUE, value |-> CustomPath, on_disk |-> FALSE],
      [set |-> TRUE, value |-> CustomPath, on_disk |-> TRUE] }

\* get_model_path as test_get_model_path_custom expects it: the variable
\* is honoured whether or not the path is on disk
get_model_path_unchecked(env) ==
    IF env.set /\ env.value /= <<>> THEN env.value ELSE OutputPrefix

\* "if custom_path and os.path.exists(custom_path): return custom_path"
get_model_path(env) ==
    IF env.set /\ env.value /= <<>> /\ env.on_disk
    THEN env.value
    ELSE OutputPrefix

\* The characters str.strip() removes, among those of the texts.
Whitespace == {" ", "\t", "\n"}

RECURSIVE LStrip(_)
LStrip(s) ==
    IF s /= <<>> /\ Head(s) \in Whitespace THEN LStrip(Tail(s)) ELSE s

RECURSIVE RStrip(_)
RStrip(s) ==
    IF s /= <<>> /\ s[Len(s)] \in Whitespace
    THEN RStrip(SubSeq(s, 1, Len(s) - 1))
    ELSE s

\* the test on the text as it is: "if not text"
Strip_nothing(s) == s

\* text.strip()
Strip(s) == RStrip(LStrip(s))

\* check_model_updates without its try/except: the checker's error goes on
check_model_updates_uncaught(chk) == chk

\* check_model_updates, given what update_checker.check_for_updates did
\* (chk.raised: it raised; chk.ret: what it returned otherwise)
check_model_updates(chk) ==
    IF chk.raised
    THEN [raised |-> FALSE, ret |-> FALSE]   \* except Exception: warning
    ELSE [raised |-> FALSE, ret |-> chk.ret]

\* generate_speech: what it returns, whether an exception leaves it, and the
\* calls it makes in order ("check": check_model_updates, "load":
\* load_model, "synth": tts_to_file).  load_ok and synth_ok say whether
\* load_model and tts_to_file succeed.
generate_speech(text, check_updates, chk, load_ok, synth_ok) ==
    LET checks == IF check_updates THEN <<"check">> ELSE <<>>
    IN  IF Strip(text) = <<>>
        THEN [ret |-> FALSE, raised |-> FALSE, events |-> <<>>]
        ELSE IF check_updates /\ check_model_updates(chk).raised
        THEN [ret |-> FALSE, raised |-> TRUE, events |-> checks]
        ELSE IF ~load_ok
        THEN [ret |-> FALSE, raised |-> FALSE, events |-> checks \o <<"load">>]
        ELSE [ret |-> synth_ok, raised |-> FALSE,
              events |-> checks \o <<"load", "synth">>]

\* the exit status when the result of generate_speech is not looked at
exit_status_ignored(success) == 0

\* "if not success: sys.exit(1)"; a return from process_args ends in status 0
exit_status(success) == IF success THEN 0 ELSE 1

\* process_args: the status the run ends with and the calls made ("info":
\* show_model_info).  args.text is None when has_text is false.
process_args(args, chk, load_ok, synth_ok) ==
    IF args.info
    THEN [exit |-> 0, events |-> <<"info">>, ret |-> FALSE]
    ELSE IF ~args.has_text \/ args.text = <<>>
    THEN [exit |-> 1, events |-> <<>>, ret |-> FALSE]
    ELSE LET g == generate_speech(args.text, args.check_updates, chk,
                                  load_ok, synth_ok)
         IN  [exit |-> IF g.raised THEN 1 ELSE exit_status(g.ret),
              events |-> g.events, ret |-> g.ret]

\* No call was made on the command-line tool.
NoCli ==
    [op |-> "none", has_text |-> FALSE, text |-> <<>>, info |-> FALSE,
     check_updates |-> FALSE, chk |-> [raised |-> FALSE, ret |-> FALSE],
     load_ok |-> FALSE, synth_ok |-> FALSE,
     env |-> [set |-> FALSE, value |-> <<>>, on_disk |-> FALSE],
     ret |-> FALSE, raised |-> FALSE, events |-> <<>>, exit |-> 0,
     path |-> <<>>]

(***************************************************************************)
(* tts_oneclick.py: generate_command and main.  Here the text, the output  *)
(* path and the model name are whole strings, and a command is the         *)
(* sequence of its parts.                                                  *)
(***************************************************************************)
DefaultModel == "tts_models/en/ljspeech/vits"

\* The activation part of the command, by platform (os.name == 'nt').
Activation(nt) ==
    IF nt THEN <<"cmd /c \"", "tts_venv\\Scripts\\activate.bat", "&&\"">>
    ELSE <<"source", "tts_venv/bin/activate", "&&">>

\* "if not args.text": args.text is None (has_text false) or empty
TextMissing(args) == ~args.has_text \/ args.text = ""

\* generate_command(args, activate_script): (False, "No text provided") or
\* (True, command)
generate_command(args, nt) ==
    IF TextMissing(args)
    THEN [ok |-> FALSE, command |-> <<>>, error |-> "No text provided"]
    ELSE LET python_cmd ==
                 IF args.info
                 THEN <<"python", "tts_cli.py", "--info">>
                 ELSE <<"python", "tts_cli.py", args.text>>
                      \o (IF args.has_output THEN <<"-o", args.output>> ELSE <<>>)
                      \o (IF args.model_name /= ""
                          THEN <<"--model-name", args.model_name>> ELSE <<>>)
                      \o (IF args.check_updates THEN <<"--check-updates">> ELSE <<>>)
                      \o (IF args.cpu THEN <<"--cpu">> ELSE <<>>)
                      \o (IF args.max_filename_length /= 0
                          THEN <<"--max-filename-length",
                                 ToString(args.max_filename_length)>>
                          ELSE <<>>)
         IN  [ok |-> TRUE,
              command |-> Activation(nt) \o python_cmd
                              \o (IF nt THEN <<"\"">> ELSE <<>>),
              error |-> ""]

\* main(): the status the run ends with, the error it prints, and the
\* command it hands to os.system.  python_ok: check_python_version();
\* venv_ok: setup_venv() succeeded (activate_script is then a path).
oneclick_main(args, python_ok, venv_ok, nt) ==
    IF ~python_ok
    THEN [exit |-> 1, message |-> "not supported", executed |-> FALSE,
          command |-> <<>>]
    ELSE IF ~venv_ok
    THEN [exit |-> 1, message |-> "Setup failed", executed |-> FALSE,
          command |-> <<>>]
    ELSE IF ~args.info /\ TextMissing(args)
    THEN [exit |-> 1, message |-> "Error: Text is required unless using --info",
          executed |-> FALSE, command |-> <<>>]
    ELSE LET g == generate_command(args, nt)
         IN  IF g.ok
             THEN [exit |-> 0, message |-> "", executed |-> TRUE,
                   command |-> g.command]
             ELSE [exit |-> 1, message |-> "Command generation failed",
                   executed |-> FALSE, command |-> <<>>]

\* The one-click runner was not run.
NoRun ==
    [op |-> "none",
     args |-> [has_text |-> FALSE, text |-> "", has_output |-> FALSE,
               output |-> "", model_name |-> DefaultModel,
               check_updates |-> FALSE, info |-> FALSE, cpu |-> FALSE,
               max_filename_length |-> 20],
     python_ok |-> FALSE, venv_ok |-> FALSE, nt |-> FALSE,
     exit |-> 0, message |-> "", executed |-> FALSE, command |-> <<>>]

\* The variables of the other specifications at rest.
AuxIdle ==
    /\ root = TRUE
    /\ scan = NoScan
    /\ race = NoRace
    /\ cli = NoCli
    /\ run = NoRun

Init ==
    /\ now = Epoch
    /\ file \in {Absent, Corrupt} \cup { save_cache(Absent, m) : m \in SaveInputs }
    /\ fs = FsModels
    /\ last = NoCall
    /\ prev = Earlier(NoCall)
    /\ ident = <<>>
    /\ dname = <<>>
    /\ rname = <<>>
    /\ dname2 = <<>>
    /\ npc = 0
    /\ AuxIdle

\* Time passes.
Tick ==
    /\ \E t \in Times : t > now /\ now' = t
    /\ UNCHANGED <<file, fs, last, prev, nameVars, auxVars>>

LoadCache ==
    /\ last' = [NoCall EXCEPT !.op = "load", !.time = now, !.soon = Soon,
                              !.map = load_cache(file).value,
                              !.raised = load_cache(file).raised,
                              !.warnings =
                                  IF load_cache(file).warned THEN 1 ELSE 0]
    /\ prev' = Earlier(last)
    /\ UNCHANGED <<now, file, fs, nameVars, auxVars>>

SaveCache ==
    \E data \in SaveInputs :
        /\ file' = save_cache(file, data)
        /\ last' = [NoCall EXCEPT !.op = "save", !.time = now, !.soon = Soon,
                                  !.map = data,
                                  !.saves = 1,
                                  !.raised = save_cache_raised(file),
                                  !.warnings =
                                      IF save_cache_warned(file) THEN 1 ELSE 0]
        /\ prev' = Earlier(last)
        /\ UNCHANGED <<now, fs, nameVars, auxVars>>

CheckForUpdates ==
    \E model_name \in Models, force_check \in BOOLEAN :
        LET r == check_for_updates(file, fs, now, model_name, force_check)
        IN  /\ file' = r.file
            /\ last' = [NoCall EXCEPT !.op = "check", !.model = model_name,
                                      !.force = force_check, !.time = now,
                                      !.soon = Soon,
                                      !.fresh = EntryYoungerThanHour(
                                                    file, model_name, now),
                                      !.ret = r.ret, !.hit = r.hit,
                                      !.found = r.found, !.scans = r.scans,
                                      !.remotes = r.remotes, !.saves = r.saves,
                                      !.raised = r.raised,
                                      !.warnings = r.warnings]
            /\ prev' = Earlier(last)
            /\ UNCHANGED <<now, fs, nameVars, auxVars>>

CleanupCache ==
    LET r == cleanup_cache(file, now)
    IN  /\ file' = r.file
        /\ last' = [NoCall EXCEPT !.op = "cleanup", !.time = now, !.soon = Soon,
                                  !.saves = r.saves, !.removed = r.removed,
                                  !.raised = r.raised,
                                  !.warnings = r.warnings]
        /\ prev' = Earlier(last)
        /\ UNCHANGED <<now, fs, nameVars, auxVars>>

Next ==
    \/ Tick
    \/ LoadCache
    \/ SaveCache
    \/ CheckForUpdates
    \/ CleanupCache

Spec == Init /\ [][Next]_vars

(***************************************************************************)
(* The calls when the cache file may be unreadable or unwritable (a        *)
(* permission, a read-only or full disk, a storage root that cannot be     *)
(* created) and when check_remote_model_info is replaced by a stub that    *)
(* answers.                                                                *)
(***************************************************************************)
\* What the remote lookup may answer: nothing, a record with a
\* 'last_modified' around the local files' times, a record without one.
RemoteInfos ==
    { NoRemote, [some |-> TRUE, has_last_modified |-> FALSE, last_modified |-> 0] }
        \cup { [some |-> TRUE, has_last_modified |-> TRUE, last_modified |-> t] :
                 t \in {Epoch, Epoch + 1, Epoch + 2} }

CheckStubbed ==
    \E model_name \in Models, force_check \in BOOLEAN, remote_info \in RemoteInfos :
        LET r == check_with_remote(file, fs, now, model_name, force_check,
                                   remote_info)
        IN  /\ file' = r.file
            /\ last' = [NoCall EXCEPT !.op = "check", !.model = model_name,
                                      !.force = force_check, !.time = now,
                                      !.soon = Soon,
                                      !.fresh = EntryYoungerThanHour(
                                                    file, model_name, now),
                                      !.ret = r.ret, !.hit = r.hit,
                                      !.found = r.found, !.scans = r.scans,
                                      !.remotes = r.remotes, !.saves = r.saves,
                                      !.raised = r.raised,
                                      !.warnings = r.warnings,
                                      !.stub = remote_info]
            /\ prev' = Earlier(last)
            /\ UNCHANGED <<now, fs, nameVars, auxVars>>

\* The environment makes the cache file (un)readable and (un)writable.
Fault ==
    /\ \E r, w \in BOOLEAN : file' = [file EXCEPT !.readable = r, !.writable = w]
    /\ UNCHANGED <<now, fs, last, prev, nameVars, auxVars>>

NextIO ==
    \/ LoadCache
    \/ SaveCache
    \/ CheckForUpdates
    \/ CleanupCache
    \/ Fault

SpecIO == Init /\ [][NextIO]_vars

(***************************************************************************)
(* The calls of check_for_updates with the stub for the remote lookup,     *)
(* for a model directory with model files and for one without.             *)
(***************************************************************************)
\* M1's directory holds no file that matches a pattern.
FsBare ==
    [d \in {toDirName(M1)} |->
        [is_dir |-> TRUE,
         files |-> { [name |-> "README.md", ext |-> "md", mtime |-> Epoch + 2] }]]

InitRemote ==
    /\ now = Epoch
    /\ file \in {Absent, Corrupt} \cup { save_cache(Absent, m) : m \in SaveInputs }
    /\ fs \in {FsModels, FsBare}
    /\ last = NoCall
    /\ prev = Earlier(NoCall)
    /\ ident = <<>>
    /\ dname = <<>>
    /\ rname = <<>>
    /\ dname2 = <<>>
    /\ npc = 0
    /\ AuxIdle

NextRemote == CheckStubbed

SpecRemote == InitRemote /\ [][NextRemote]_vars

(***************************************************************************)
(* The checker as the tool uses it: only check_for_updates and             *)
(* cleanup_cache write the cache file, which starts without an entry that  *)
(* says an update is available.                                            *)
(***************************************************************************)
\* The value says that an update is available.
SaysUpdate(value) == value.dict /\ value.has_ua /\ value.updates_available

\* The mappings of SaveInputs without such a value, and two with entries
\* for the models that say no update is available.
QuietInputs ==
    { m \in SaveInputs : \A k \in DOMAIN m : ~SaysUpdate(m[k]) }
        \cup { (K1 :> Rec(Epoch, FALSE)) @@ (K2 :> Rec(Epoch, FALSE)),
               (K1 :> RecNoTs(FALSE)) @@ (<<"old_key">> :> RecData(0, "test")) }

InitQuiet ==
    /\ now = Epoch
    /\ file \in {Absent, Corrupt} \cup { save_cache(Absent, m) : m \in QuietInputs }
    /\ fs = FsModels
    /\ last = NoCall
    /\ prev = Earlier(NoCall)
    /\ ident = <<>>
    /\ dname = <<>>
    /\ rname = <<>>
    /\ dname2 = <<>>
    /\ npc = 0
    /\ AuxIdle

NextQuiet ==
    \/ Tick
    \/ CheckForUpdates
    \/ CleanupCache

SpecQuiet == InitQuiet /\ [][NextQuiet]_vars

(***************************************************************************)
(* Two processes share the cache file without a lock.  Each runs           *)
(* check_for_updates once, for its own model: it loads the cache, and in a *)
(* later step does the rest of the call, which ends in save_cache.         *)
(***************************************************************************)
\* Both models have a directory.
FsBoth == [d \in {toDirName(M1), toDirName(M2)} |-> FsModels[toDirName(M1)]]

\* Cache files without an entry for either model.
RaceFiles ==
    {Absent, Corrupt}
        \cup { save_cache(Absent, m) :
                 m \in { x \in SaveInputs : K1 \notin DOMAIN x /\ K2 \notin DOMAIN x } }

InitRace ==
    /\ now = Epoch
    /\ file \in RaceFiles
    /\ fs = FsBoth
    /\ last = NoCall
    /\ prev = Earlier(NoCall)
    /\ ident = <<>>
    /\ dname = <<>>
    /\ rname = <<>>
    /\ dname2 = <<>>
    /\ npc = 0
    /\ root = TRUE
    /\ scan = NoScan
    /\ race = NoRace
    /\ cli = NoCli
    /\ run = NoRun

\* Process p enters check_for_updates: "cache = self.load_cache()".
RaceLoad(p) ==
    /\ race.pc[p] = "start"
    /\ \E force_check \in BOOLEAN :
           race' = [race EXCEPT
                      !.pc[p] = "loaded",
                      !.loaded[p] = load_cache(file),
                      !.force[p] = force_check,
                      !.overlap = @ \/ \E q \in Procs \ {p} : race.pc[q] = "loaded"]
    /\ UNCHANGED <<cacheVars, nameVars, root, scan, cli, run>>

\* Process p runs the rest of check_for_updates on the cache it loaded.
RaceFinish(p) ==
    /\ race.pc[p] = "loaded"
    /\ LET r == check_from_cache(race.loaded[p], file, fs, now, ModelOf(p),
                                 race.force[p], check_remote_model_info(ModelOf(p)))
       IN  /\ file' = r.file
           /\ race' = [race EXCEPT !.pc[p] = "done", !.ret[p] = r.ret,
                                   !.hit[p] = r.hit]
    /\ UNCHANGED <<now, fs, last, prev, nameVars, root, scan, cli, run>>

NextRace ==
    \/ \E p \in Procs : RaceLoad(p)
    \/ \E p \in Procs : RaceFinish(p)

SpecRace == InitRace /\ [][NextRace]_vars

(***************************************************************************)
(* The command-line tool.  The update checker it calls works on the cache  *)
(* file and the storage root; it may also raise (the directory scan is     *)
(* not guarded, a cache entry may be no JSON object).                      *)
(***************************************************************************)
Texts == { <<>>, <<" ", " ">>, <<"\t", "\n">>, <<" ", "H", "i">> }

\* The cache files of the tool's runs: none, and two with an entry for M1
\* that answers the check (one says an update is available).
CliFiles ==
    { Absent,
      save_cache(Absent, (K1 :> Rec(Epoch, TRUE)) @@ (<<"old_key">> :> RecData(Epoch, "test"))),
      save_cache(Absent, (K1 :> Rec(Epoch, FALSE)) @@ (K2 :> Rec(Epoch, TRUE))) }

InitCli ==
    /\ now = Epoch
    /\ file \in CliFiles
    /\ fs = FsModels
    /\ last = NoCall
    /\ prev = Earlier(NoCall)
    /\ ident = <<>>
    /\ dname = <<>>
    /\ rname = <<>>
    /\ dname2 = <<>>
    /\ npc = 0
    /\ AuxIdle

\* What update_checker.check_for_updates(model_name) does when
\* check_model_updates calls it: it raises (fault) or runs.
CheckerRun(model_name, fault) ==
    LET r == check_for_updates(file, fs, now, model_name, FALSE)
    IN  IF fault THEN [raised |-> TRUE, ret |-> FALSE, file |-> file]
        ELSE [raised |-> FALSE, ret |-> r.ret, file |-> r.file]

GetModelPath ==
    \E env \in Envs :
        /\ cli' = [NoCli EXCEPT !.op = "get_model_path", !.env = env,
                                !.path = get_model_path(env)]
        /\ UNCHANGED <<cacheVars, nameVars, root, scan, race, run>>

GenerateSpeech ==
    \E text \in Texts, check_updates, load_ok \in BOOLEAN :
    \E fault \in IF check_updates THEN BOOLEAN ELSE {FALSE},
       model_name \in IF check_updates THEN Models ELSE {M1},
       synth_ok \in IF load_ok THEN BOOLEAN ELSE {FALSE} :
        LET c == CheckerRun(model_name, fault)
            chk == [raised |-> c.raised, ret |-> c.ret]
            g == generate_speech(text, check_updates, chk, load_ok, synth_ok)
        IN  /\ cli' = [NoCli EXCEPT !.op = "generate_speech",
                                    !.has_text = TRUE, !.text = text,
                                    !.check_updates = check_updates,
                                    !.chk = chk,
                                    !.load_ok = load_ok, !.synth_ok = synth_ok,
                                    !.ret = g.ret, !.raised = g.raised,
                                    !.events = g.events]
            /\ file' = IF "check" \in { g.events[i] : i \in DOMAIN g.events }
                       THEN c.file ELSE file
            /\ UNCHANGED <<now, fs, last, prev, nameVars, root, scan, race, run>>

ProcessArgs ==
    \E has_text, info, check_updates, load_ok \in BOOLEAN :
    \E text \in IF has_text THEN Texts ELSE {<<>>},
       fault \in IF check_updates THEN BOOLEAN ELSE {FALSE},
       model_name \in IF check_updates THEN Models ELSE {M1},
       synth_ok \in IF load_ok THEN BOOLEAN ELSE {FALSE} :
        LET c == CheckerRun(model_name, fault)
            chk == [raised |-> c.raised, ret |-> c.ret]
            args == [has_text |-> has_text,
                     text |-> IF has_text THEN text ELSE <<>>,
                     info |-> info, check_updates |-> check_updates]
            r == process_args(args, chk, load_ok, synth_ok)
        IN  /\ cli' = [NoCli EXCEPT !.op = "process_args",
                                    !.has_text = has_text, !.text = args.text,
                                    !.info = info,
                                    !.check_updates = check_updates,
                                    !.chk = chk,
                                    !.load_ok = load_ok, !.synth_ok = synth_ok,
                                    !.ret = r.ret, !.events = r.events,
                                    !.exit = r.exit]
            /\ file' = IF "check" \in { r.events[i] : i \in DOMAIN r.events }
                       THEN c.file ELSE file
            /\ UNCHANGED <<now, fs, last, prev, nameVars, root, scan, race, run>>

NextCli ==
    \/ GetModelPath
    \/ GenerateSpeech
    \/ ProcessArgs

SpecCli == InitCli /\ [][NextCli]_vars

(***************************************************************************)
(* The runs of the one-click runner: every combination of arguments, with  *)
(* and without a supported Python and a working virtual environment.       *)
(***************************************************************************)
\* What parse_args may give.
OneClickArgs ==
    { [has_text |-> t.has, text |-> t.text, has_output |-> o.has,
       output |-> o.path, model_name |-> m, check_updates |-> c, info |-> i,
       cpu |-> g, max_filename_length |-> n] :
        t \in { [has |-> FALSE, text |-> ""], [has |-> TRUE, text |-> ""],
                [has |-> TRUE, text |-> "Hello world"] },
        o \in { [has |-> FALSE, path |-> ""], [has |-> TRUE, path |-> "custom.wav"] },
        m \in {DefaultModel, ""},
        c \in BOOLEAN, i \in BOOLEAN, g \in BOOLEAN,
        n \in {0, 20, 25} }

InitOneClick ==
    /\ now = Epoch
    /\ file = Absent
    /\ fs = FsModels
    /\ last = NoCall
    /\ prev = Earlier(NoCall)
    /\ ident = <<>>
    /\ dname = <<>>
    /\ rname = <<>>
    /\ dname2 = <<>>
    /\ npc = 0
    /\ AuxIdle

\* One run of the runner; it is a process of its own and keeps nothing from
\* one run to the next.
OneClickMain ==
    \E args \in OneClickArgs, python_ok, venv_ok, nt \in BOOLEAN :
        LET r == oneclick_main(args, python_ok, venv_ok, nt)
        IN  /\ run.op = "none"
            /\ run' = [op |-> "main", args |-> args, python_ok |-> python_ok,
                       venv_ok |-> venv_ok, nt |-> nt, exit |-> r.exit,
                       message |-> r.message, executed |-> r.executed,
                       command |-> r.command]
            /\ UNCHANGED <<cacheVars, nameVars, root, scan, race, cli>>

NextOneClick == OneClickMain

SpecOneClick == InitOneClick /\ [][NextOneClick]_vars

(***************************************************************************)
(* The name mapping on its own: an identifier is mapped to its directory   *)
(* name (get_local_model_info), the name back to an identifier             *)
(* (list_local_models), and that identifier to a directory name again.     *)
(***************************************************************************)
RECURSIVE Strings(_)
Strings(n) ==
    IF n = 0 THEN {<<>>}
    ELSE LET shorter == Strings(n - 1)
         IN  shorter \cup { Append(s, c) : s \in shorter, c \in Alphabet }

Idents == Strings(MaxLen)

InitNames ==
    /\ now = Epoch
    /\ file = Absent
    /\ fs = FsEmpty
    /\ last = NoCall
    /\ prev = Earlier(NoCall)
    /\ ident \in Idents
    /\ dname = <<>>
    /\ rname = <<>>
    /\ dname2 = <<>>
    /\ npc = 0
    /\ AuxIdle

ToDirName ==
    /\ npc = 0
    /\ dname' = toDirName(ident)
    /\ npc' = 1
    /\ UNCHANGED <<cacheVars, auxVars, ident, rname, dname2>>

ToModelId ==
    /\ npc = 1
    /\ rname' = toModelId(dname)
    /\ npc' = 2
    /\ UNCHANGED <<cacheVars, auxVars, ident, dname, dname2>>

ToDirNameAgain ==
    /\ npc = 2
    /\ dname2' = toDirName(rname)
    /\ npc' = 3
    /\ UNCHANGED <<cacheVars, auxVars, ident, dname, rname>>

NextNames ==
    \/ ToDirName
    \/ ToModelId
    \/ ToDirNameAgain

SpecNames == InitNames /\ [][NextNames]_vars

(***************************************************************************)
(* The scanner on its own: get_local_model_info and list_local_models over *)
(* storage roots that hold model directories with and without model files, *)
(* regular files and hidden directories.                                   *)
(***************************************************************************)
\* ord(c) of the characters that occur in names
Ord(c) ==
    CASE c = "-" -> 45
      [] c = "." -> 46
      [] c = "/" -> 47
      [] c = "a" -> 97
      [] c = "b" -> 98
      [] c = "c" -> 99
      [] c = "h" -> 104
      [] OTHER -> 0

RECURSIVE LexLess(_, _)
\* s < t on str
LexLess(s, t) ==
    IF s = <<>> THEN t /= <<>>
    ELSE IF t = <<>> THEN FALSE
    ELSE IF Head(s) = Head(t) THEN LexLess(Tail(s), Tail(t))
    ELSE Ord(Head(s)) < Ord(Head(t))

RECURSIVE Insert(_, _)
\* x put behind the records of sorted whose name is not greater (stable)
Insert(x, sorted) ==
    IF sorted = <<>> THEN <<x>>
    ELSE IF LexLess(x.name, Head(sorted).name)
    THEN <<x>> \o sorted
    ELSE <<Head(sorted)>> \o Insert(x, Tail(sorted))

RECURSIVE SortByName(_)
\* sorted(models, key=lambda x: x.get('name', ''))
SortByName(models) ==
    IF models = <<>> THEN <<>>
    ELSE Insert(models[Len(models)], SortByName(SubSeq(models, 1, Len(models) - 1)))

\* the test without item.is_dir()
IsListed_any_entry(name, entry) == Head(name) /= "."

\* "if item.is_dir() and not item.name.startswith('.')"
IsListed(name, entry) == entry.is_dir /\ Head(name) /= "."

RECURSIVE CollectModels(_, _)
\* the loop over model_path.iterdir(), which yields the names in order items
CollectModels(fsys, items) ==
    IF items = <<>> THEN <<>>
    ELSE LET name == Head(items)
             info == get_local_model_info(fsys, toModelId(name))
         IN  (IF IsListed(name, fsys[name]) /\ info.found THEN <<info>> ELSE <<>>)
                 \o CollectModels(fsys, Tail(items))

list_local_models(root_exists, fsys, items) ==
    IF ~root_exists THEN <<>>
    ELSE SortByName(CollectModels(fsys, items))

\* The orders in which iterdir() may yield the entries S.
Orders(S) ==
    { o \in [1..Cardinality(S) -> S] : \A i, j \in DOMAIN o : o[i] = o[j] => i = j }

Hidden == <<".", "h">>
TripleDash == <<"a", "-", "-", "-", "b">>
ScanNames == {toDirName(M1), M2, Hidden, TripleDash}
ScanModels == { toModelId(d) : d \in ScanNames }

\* What a name of the storage root may be: a regular file, an empty
\* directory, the directory of FsModels, one without model files and one
\* whose two newest model files are equally new.
ScanEntries ==
    { [is_dir |-> FALSE, files |-> {}],
      [is_dir |-> TRUE, files |-> {}],
      FsModels[toDirName(M1)],
      [is_dir |-> TRUE,
       files |-> { [name |-> "README.md", ext |-> "md", mtime |-> Epoch + 2] }],
      [is_dir |-> TRUE,
       files |-> { [name |-> "x.pt", ext |-> "pt", mtime |-> Epoch + 3],
                   [name |-> "y.pth", ext |-> "pth", mtime |-> Epoch],
                   [name |-> "z.ckpt", ext |-> "ckpt", mtime |-> Epoch + 3],
                   [name |-> "w.txt", ext |-> "txt", mtime |-> Epoch + 4] }] }

ScanRoots == UNION { [S -> ScanEntries] : S \in SUBSET ScanNames }

InitScan ==
    /\ now = Epoch
    /\ file = Absent
    /\ \/ root = TRUE /\ fs \in ScanRoots
       \/ root = FALSE /\ fs = FsEmpty
    /\ last = NoCall
    /\ prev = Earlier(NoCall)
    /\ ident = <<>>
    /\ dname = <<>>
    /\ rname = <<>>
    /\ dname2 = <<>>
    /\ npc = 0
    /\ scan = NoScan
    /\ race = NoRace
    /\ cli = NoCli
    /\ run = NoRun

GetLocalModelInfo ==
    \E model_name \in ScanModels :
        /\ scan' = [NoScan EXCEPT !.op = "info", !.model = model_name,
                                  !.info = get_local_model_info(fs, model_name)]
        /\ UNCHANGED <<cacheVars, nameVars, root, race, cli, run>>

ListLocalModels ==
    \E items \in Orders(DOMAIN fs) :
        /\ scan' = [NoScan EXCEPT !.op = "list",
                                  !.list = list_local_models(root, fs, items)]
        /\ UNCHANGED <<cacheVars, nameVars, root, race, cli, run>>

NextScan ==
    \/ GetLocalModelInfo
    \/ ListLocalModels

SpecScan == InitScan /\ [][NextScan]_vars

(***************************************************************************)
(* Properties.                                                             *)
(***************************************************************************)
\* The step is a call of cleanup_cache / of check_for_updates.
CleanupStep == last'.op = "cleanup" /\ now' = now /\ CleanupCache
CheckStep == last'.op = "check" /\ now' = now /\ CheckForUpdates

\* The step takes an entry out of the cache file.
RemovesAnEntry ==
    /\ file' /= file
    /\ \E k \in DOMAIN Persisted(file) : k \notin DOMAIN Persisted(file')

\* Two consecutive calls of check_for_updates for one model, neither forced.
TwoUnforcedChecks ==
    /\ last.op = "check"
    /\ prev.op = "check"
    /\ last.model = prev.model
    /\ ~last.force
    /\ ~prev.force

\* C1, as stated: two unforced checks of a model less than 3600 seconds apart
\* return the same boolean, and the second scans no directory and looks up
\* no remote.
C1_SameWithinTheHour ==
    (TwoUnforcedChecks /\ last.soon)
        => (last.ret = prev.ret /\ last.scans = 0 /\ last.remotes = 0)

\* C1, amended: two unforced checks of a model return the same boolean, and
\* the second scans no directory and looks up no remote, when the second is
\* made less than 3600 seconds after the timestamp of the model's cache entry;
\* it is when the first call checked a model that has a directory and the
\* second follows in less than 3600 seconds.
C1_SameWhileEntryFresh ==
    /\ (TwoUnforcedChecks /\ last.fresh)
          => (last.ret = prev.ret /\ last.scans = 0 /\ last.remotes = 0)
    /\ (TwoUnforcedChecks /\ ~prev.hit /\ last.soon
            /\ toDirName(last.model) \in DOMAIN fs)
          => last.fresh

\* C1's case: a real check of M1 that wrote the entry, then an unforced check
\* later within the hour.
C1_Witness ==
    /\ TwoUnforcedChecks
    /\ last.model = M1
    /\ ~prev.hit
    /\ last.fresh
    /\ last.time > Epoch
    /\ last.scans = 0

\* The model of the last check has no directory under the storage root.
LastCheckedMissing ==
    /\ last.op = "check"
    /\ toDirName(last.model) \notin DOMAIN fs

\* C2, as stated: for a model without a directory check_for_updates returns
\* false whatever the cache holds and whatever force_check is, and writes no
\* entry whose updates_available is true.
C2_MissingAlwaysFalse ==
    LastCheckedMissing
        => /\ last.ret = FALSE
           /\ last.saves > 0 =>
                 ~Persisted(file)[<<"update_check_">> \o last.model].updates_available

\* C2, amended: for a model without a directory check_for_updates returns
\* false unless an entry younger than an hour answers the unforced call with
\* its cached boolean, and the call writes nothing to the cache.
C2_MissingFalseUnlessCached ==
    LastCheckedMissing
        => /\ last.ret => (~last.force /\ last.fresh)
           /\ (~last.force /\ last.fresh) =>
                 /\ <<"update_check_">> \o last.model \in DOMAIN Persisted(file)
                 /\ LET e == Persisted(file)[<<"update_check_">> \o last.model]
                    IN  last.ret = (e.has_ua /\ e.updates_available)
           /\ last.saves = 0

\* C2's case: a forced check of the missing model M2 returned false although
\* the cache holds a true entry for it.
C2_Witness ==
    /\ LastCheckedMissing
    /\ last.force
    /\ ~last.ret
    /\ <<"update_check_">> \o last.model \in DOMAIN Persisted(file)
    /\ Persisted(file)[<<"update_check_">> \o last.model].updates_available

\* C3: cleanup_cache at time now removes exactly the entries that carry a
\* timestamp more than 604800 seconds old and leaves every other entry with
\* its value.
C3_CleanupRemovesExactlyOld ==
    [][CleanupStep =>
        LET pre == Persisted(file)
            post == Persisted(file')
            old == { k \in DOMAIN pre :
                        /\ pre[k].dict
                        /\ pre[k].has_ts
                        /\ now - pre[k].timestamp > 604800 }
        IN  /\ DOMAIN post = DOMAIN pre \ old
            /\ \A k \in DOMAIN post : post[k] = pre[k]]_vars

\* C3's case: a cleanup removed the record stamped long ago and kept the one
\* stamped in the future and the legacy data without a timestamp.
C3_Witness ==
    /\ last.op = "cleanup"
    /\ last.removed = 1
    /\ <<"old_key">> \notin DOMAIN Persisted(file)
    /\ <<"recent_key">> \in DOMAIN Persisted(file)
    /\ <<"key">> \in DOMAIN Persisted(file)
    /\ ~Persisted(file)[<<"key">>].has_ts

\* C4: load_cache never raises; it returns the persisted mapping when the
\* file exists and parses, and an empty mapping when the file is absent or
\* unparseable.
C4_LoadNeverRaises ==
    last.op = "load"
        => /\ ~last.raised
           /\ IF file.exists /\ file.wellformed
              THEN /\ DOMAIN last.map = { file.entries[i].key : i \in DOMAIN file.entries }
                   /\ \A i \in DOMAIN file.entries :
                         last.map[file.entries[i].key] = file.entries[i].value
              ELSE DOMAIN last.map = {}

\* C4's case: load_cache was called on an unparseable file.
C4_Witness ==
    /\ last.op = "load"
    /\ file = Corrupt
    /\ DOMAIN last.map = {}
    /\ ~last.raised

NoDoubleDash(s) ==
    \A i \in 1..(Len(s) - 1) : ~(s[i] = "-" /\ s[i + 1] = "-")

\* No path segment of s but the last ends with '-'.
NoDashBeforeSlash(s) ==
    \A i \in 1..(Len(s) - 1) : ~(s[i] = "-" /\ s[i + 1] = "/")

\* C6, as stated: an identifier of which no path segment contains '--' is
\* mapped to a directory name and back to itself.
C6_InvertibleNoDoubleDash ==
    (npc >= 2 /\ NoDoubleDash(ident)) => rname = ident

\* C6, amended: an identifier of which no path segment contains '--' and no
\* path segment followed by '/' ends with '-' is mapped to a directory name
\* and back to itself.
C6_InvertibleNoDashAtSegmentEnd ==
    (npc >= 2 /\ NoDoubleDash(ident) /\ NoDashBeforeSlash(ident))
        => rname = ident

\* C6's case: an identifier with a separator and a dash was mapped forth and
\* back.
C6_Witness ==
    /\ npc = 2
    /\ ident = <<"a", "/", "-", "a">>
    /\ dname = <<"a", "-", "-", "-", "a">>
    /\ rname = ident

\* C7: for an identifier I without '--',
\* toDirName(toModelId(toDirName(I))) = toDirName(I).
C7_DirNameStable ==
    (npc = 3 /\ NoDoubleDash(ident)) => dname2 = dname

\* C7's case: an identifier that does not map back to itself still maps to
\* the same directory name.
C7_Witness ==
    /\ npc = 3
    /\ ident = <<"a", "-", "/", "a">>
    /\ rname /= ident
    /\ dname2 = dname

\* The file holds, for the model of the last check, the entry of that check.
LastCheckStamped ==
    /\ <<"update_check_">> \o last.model \in DOMAIN Persisted(file)
    /\ LET e == Persisted(file)[<<"update_check_">> \o last.model]
       IN  /\ e.dict
           /\ e.has_ts
           /\ e.timestamp = last.time
           /\ e.has_ua
           /\ e.updates_available = last.ret

\* C8, as stated: every check not answered from the cache leaves the file
\* with an entry for the key stamped with the time of the call.
C8_CheckLeavesFresh ==
    (last.op = "check" /\ ~last.hit) => LastCheckStamped

\* C8, amended: every check not answered from the cache, of a model whose
\* directory exists under the storage root, leaves the file with an entry
\* for the key stamped with the time of the call.
C8_CheckOfLocalModelLeavesFresh ==
    (last.op = "check" /\ ~last.hit /\ toDirName(last.model) \in DOMAIN fs)
        => LastCheckStamped

\* C8's case: an unforced check at a later time replaced a stale entry.
C8_Witness ==
    /\ last.op = "check"
    /\ ~last.hit
    /\ ~last.force
    /\ last.model = M1
    /\ last.time >= Epoch + 3600
    /\ LastCheckStamped

\* C9: check_for_updates removes no entry and changes no entry but the one of
\* its model; an entry disappears only in a step of cleanup_cache (or when
\* save_cache is handed a mapping without it).
C9_CheckRemovesNothing ==
    [][LET pre == Persisted(file)
           post == Persisted(file')
       IN  /\ CheckStep =>
                 \A k \in DOMAIN pre :
                     /\ k \in DOMAIN post
                     /\ k /= <<"update_check_">> \o last'.model => post[k] = pre[k]
           /\ RemovesAnEntry => (CleanupCache \/ SaveCache)]_vars

\* C9's case: a check wrote its entry into a file that holds other entries.
C9_Witness ==
    /\ last.op = "check"
    /\ last.saves = 1
    /\ <<"old_key">> \in DOMAIN Persisted(file)
    /\ <<"recent_key">> \in DOMAIN Persisted(file)
    /\ <<"update_check_">> \o last.model \in DOMAIN Persisted(file)

\* C10, as stated: after cleanup_cache no entry with a timestamp of age
\* >= 604800 seconds, exactly 604800 included, is left.
C10_CleanupRemovesSevenDaysOld ==
    last.op = "cleanup"
        => \A k \in DOMAIN Persisted(file) :
              Persisted(file)[k].has_ts
                  => ~(last.time - Persisted(file)[k].timestamp >= 604800)

\* The state of key k at time t: absent, fresh (age < 1 hour), expired (a
\* timestamp of age > 7 days), stale otherwise.
KeyStates(f, k, t) ==
    LET m == Persisted(f)
        age == t - (IF m[k].has_ts THEN m[k].timestamp ELSE 0)
    IN  { st \in {"absent", "fresh", "stale", "expired"} :
            \/ st = "absent" /\ k \notin DOMAIN m
            \/ st = "fresh" /\ k \in DOMAIN m /\ age < 3600
            \/ st = "stale" /\ k \in DOMAIN m /\ age >= 3600
                            /\ ~(m[k].has_ts /\ age > 604800)
            \/ st = "expired" /\ k \in DOMAIN m /\ m[k].has_ts /\ age > 604800 }

\* C10, amended: every key is in exactly one of the states absent, fresh
\* (age < 1 hour), stale (age >= 1 hour and not expired) and expired (a
\* timestamp of age > 604800 seconds); cleanup_cache removes every expired
\* entry and keeps an entry of age exactly 604800 seconds.
C10_CleanupRemovesOlderThanSevenDays ==
    /\ [](\A k \in DOMAIN Persisted(file) \cup {K1, K2} :
              Cardinality(KeyStates(file, k, now)) = 1)
    /\ [][CleanupStep =>
            \A k \in DOMAIN Persisted(file) :
                /\ "expired" \in KeyStates(file, k, now) => k \notin DOMAIN Persisted(file')
                /\ (Persisted(file)[k].has_ts
                        /\ now - Persisted(file)[k].timestamp = 604800)
                     => /\ k \in DOMAIN Persisted(file')
                        /\ Persisted(file')[k] = Persisted(file)[k]]_vars

\* C10's case: a cleanup removed an expired entry and kept one of age exactly
\* 604800 seconds.
C10_Witness ==
    /\ last.op = "cleanup"
    /\ last.removed >= 1
    /\ \E k \in DOMAIN Persisted(file) :
          /\ Persisted(file)[k].has_ts
          /\ last.time - Persisted(file)[k].timestamp = 604800

\* The files of a directory that match one of the four patterns.
ModelFilesOf(entry) ==
    { f \in entry.files : f.ext \in {"pth", "pt", "json", "ckpt"} }

\* C11 (as stated): get_local_model_info returns nothing when no directory of
\* the name exists in the storage root; otherwise it returns a record with
\* exists = true which, when the directory holds files with one of the four
\* extensions, carries the greatest modification time among them and the
\* name of each of them exactly once, and otherwise carries neither.
C11_InfoOfDirectoryOnly ==
    scan.op = "info" =>
        LET d == toDirName(scan.model)
            info == scan.info
        IN  IF d \notin DOMAIN fs \/ ~fs[d].is_dir
            THEN ~info.found
            ELSE LET mf == ModelFilesOf(fs[d])
                 IN  /\ info.found /\ info.exists
                     /\ info.has_last_modified = (mf /= {})
                     /\ mf /= {} =>
                           /\ \A f \in mf : f.mtime <= info.last_modified
                           /\ \E f \in mf : f.mtime = info.last_modified
                     /\ Len(info.files) = Cardinality(mf)
                     /\ { info.files[i] : i \in DOMAIN info.files }
                            = { f.name : f \in mf }

\* The scanner was asked about a name that is a regular file.
C11_Witness ==
    /\ scan.op = "info"
    /\ toDirName(scan.model) \in DOMAIN fs
    /\ ~fs[toDirName(scan.model)].is_dir
    /\ scan.info.found
    /\ scan.info.exists

\* The subdirectories of the storage root whose name does not start with '.'.
VisibleDirs == { d \in DOMAIN fs : fs[d].is_dir /\ Head(d) /= "." }

\* C12: list_local_models returns one record for each immediate subdirectory
\* of the storage root whose name does not start with '.', in ascending
\* lexicographic order of the identifiers; regular files and hidden
\* directories contribute no record; a storage root that does not exist or
\* is empty gives the empty sequence.
C12_ListsVisibleDirsSorted ==
    scan.op = "list" =>
        /\ Len(scan.list) = Cardinality(VisibleDirs)
        /\ { scan.list[i].name : i \in DOMAIN scan.list }
               = { toModelId(d) : d \in VisibleDirs }
        /\ \A i \in DOMAIN scan.list :
               /\ scan.list[i].path \in VisibleDirs
               /\ scan.list[i] = get_local_model_info(fs, scan.list[i].name)
        /\ \A i, j \in DOMAIN scan.list :
               i < j => LexLess(scan.list[i].name, scan.list[j].name)
        /\ (~root \/ DOMAIN fs = {}) => scan.list = <<>>

\* A listing of several models from a root that also holds a hidden
\* directory and a regular file.
C12_Witness ==
    /\ scan.op = "list"
    /\ Len(scan.list) >= 2
    /\ Hidden \in DOMAIN fs
    /\ fs[Hidden].is_dir
    /\ \E d \in DOMAIN fs : ~fs[d].is_dir

\* The step is a call on the checker: the environment does not change the
\* file's permissions in it.
CallStep ==
    /\ last'.op \in {"load", "save", "check", "cleanup"}
    /\ file'.readable = file.readable
    /\ file'.writable = file.writable

\* The cache file cannot be read (it is there but open raises, or it does
\* not parse) / cannot be written.
ReadFails == file.exists /\ (~file.readable \/ ~file.wellformed)
WriteFails == ~file.writable

\* C13: no error of reading the cache, writing it or creating its directory
\* leaves load_cache, save_cache, check_for_updates or cleanup_cache: the
\* call logs a warning and returns; load_cache then returns the empty
\* mapping, a failed write leaves the file as it was, and check_for_updates
\* returns the boolean it computed.
C13_IOErrorsAreCaught ==
    [][CallStep =>
          /\ ~last'.raised
          /\ (last'.op = "load" /\ ReadFails) =>
                 last'.map = EmptyMap /\ last'.warnings = 1
          /\ (last'.op = "save" /\ WriteFails) =>
                 file' = file /\ last'.warnings = 1
          /\ (last'.op = "check" /\ last'.saves = 1 /\ WriteFails) =>
                 /\ file' = file
                 /\ last'.warnings >= 1
                 /\ last'.ret = FALSE
          /\ (last'.op = "check" /\ ReadFails) => last'.warnings >= 1
          /\ (last'.op = "cleanup" /\ file.exists /\ (ReadFails \/ WriteFails)) =>
                 last'.warnings >= 1
          /\ (last'.op = "cleanup" /\ WriteFails) => file' = file
    ]_vars

\* check_for_updates returned although it could neither read the cache file
\* nor write it.
C13_Witness ==
    /\ last.op = "check"
    /\ last.saves = 1
    /\ last.warnings = 2
    /\ ~last.raised
    /\ file.exists
    /\ ~file.readable
    /\ ~file.writable

\* Both processes have returned from check_for_updates, neither answered
\* from the cache.
BothChecked ==
    \A p \in Procs : race.pc[p] = "done" /\ ~race.hit[p]

\* The models whose entry the cache file holds.
EntriesOfModels == { p \in Procs : CacheKey(ModelOf(p)) \in DOMAIN Persisted(file) }

\* C14: when the two calls run one after the other, in either order, the
\* cache file holds the entries of both models in the end; an entry is
\* missing only when one process loaded the cache while the other was
\* between its load and its save, and then exactly one entry is missing.
C14_SequentialKeepsBoth ==
    BothChecked =>
        /\ ~race.overlap => EntriesOfModels = Procs
        /\ race.overlap => Cardinality(EntriesOfModels) = 1

\* The lost update: both processes performed their check and saved, and the
\* cache file holds the entry of only one of the two models.
C14_Witness ==
    /\ BothChecked
    /\ race.overlap
    /\ Cardinality(EntriesOfModels) = 1

\* The text of the call has a character that is no blank.
TextNotBlank == \E i \in DOMAIN cli.text : cli.text[i] \notin {" ", "\t", "\n"}

\* The calls the most recent run of the tool made.
CliCalls == { cli.events[i] : i \in DOMAIN cli.events }

\* C15: in generate_speech with check_updates set and a text that is not
\* blank, the update check is made first, then the model is loaded and (when
\* loading succeeds) tts_to_file is called; no exception leaves the call, and
\* what it returns depends only on whether loading and synthesis succeed,
\* not on whether the check returned true, returned false or raised.
C15_CheckIsAdvisory ==
    (cli.op = "generate_speech" /\ cli.check_updates /\ TextNotBlank) =>
        /\ ~cli.raised
        /\ cli.events = IF cli.load_ok THEN <<"check", "load", "synth">>
                        ELSE <<"check", "load">>
        /\ cli.ret = (cli.load_ok /\ cli.synth_ok)

\* The update checker raised, and the speech was generated all the same.
C15_Witness ==
    /\ cli.op = "generate_speech"
    /\ cli.check_updates
    /\ cli.chk.raised
    /\ cli.events = <<"check", "load", "synth">>
    /\ cli.ret

\* C16: process_args ends the run with a non-zero status when no text is
\* given and --info is not, and when generate_speech reports failure; with
\* --info it shows the model information and returns without loading a model
\* or synthesizing; a run whose synthesis succeeds does not end with a
\* non-zero status.
C16_ExitStatus ==
    cli.op = "process_args" =>
        /\ (~cli.info /\ (~cli.has_text \/ cli.text = <<>>)) =>
               cli.exit /= 0 /\ CliCalls = {}
        /\ (~cli.info /\ cli.has_text /\ cli.text /= <<>> /\ ~cli.ret) =>
               cli.exit /= 0
        /\ cli.info => cli.events = <<"info">> /\ cli.exit = 0
        /\ (~cli.info /\ TextNotBlank /\ cli.load_ok /\ cli.synth_ok) =>
               "synth" \in CliCalls /\ cli.ret /\ cli.exit = 0
        /\ cli.exit = 0 => (cli.info \/ "synth" \in CliCalls)

\* A run with a text whose model failed to load ended with status 1.
C16_Witness ==
    /\ cli.op = "process_args"
    /\ ~cli.info
    /\ TextNotBlank
    /\ ~cli.load_ok
    /\ cli.events = <<"load">>
    /\ cli.exit = 1

C18_CustomPathAlways ==
    (cli.op = "get_model_path" /\ cli.env.set /\ cli.env.value /= <<>>) =>
        cli.path = cli.env.value

\* The newest modification time among the model files of the model's
\* directory, 0 when it has none.
LocalTime(model_name) ==
    LET mf == ModelFilesOf(fs[toDirName(model_name)])
    IN  IF mf = {} THEN 0
        ELSE CHOOSE t \in { f.mtime : f \in mf } : \A f \in mf : f.mtime <= t

\* The remote lookup of the most recent call answered, with a
\* 'last_modified' (0 when it carries none) greater than the local one.
RemoteIsNewer ==
    /\ last.stub.some
    /\ (IF last.stub.has_last_modified THEN last.stub.last_modified ELSE 0)
           > LocalTime(last.model)

\* C19: when check_for_updates gets as far as the remote lookup, it returns
\* true, and writes true into the model's cache entry, exactly when the
\* lookup answered with a last_modified strictly greater than the local one
\* (0 for a directory without model files); it returns and caches false when
\* the two are equal, when the remote is older and when the lookup answered
\* nothing.
C19_TrueIffRemoteNewer ==
    (last.op = "check" /\ last.remotes = 1) =>
        /\ last.ret = RemoteIsNewer
        /\ CacheKey(last.model) \in DOMAIN Persisted(file)
        /\ Persisted(file)[CacheKey(last.model)]
               = Rec(last.time, RemoteIsNewer)

\* A check whose remote answer was one second newer than the newest local
\* model file returned true and cached it.
C19_Witness ==
    /\ last.op = "check"
    /\ last.remotes = 1
    /\ last.stub.some
    /\ last.stub.has_last_modified
    /\ last.stub.last_modified = LocalTime(last.model) + 1
    /\ last.ret
    /\ Persisted(file)[CacheKey(last.model)].updates_available

\* What the cache entry of the most recent call's model says, false when it
\* carries no 'updates_available'.
CachedAnswer ==
    LET e == Persisted(file)[CacheKey(last.model)]
    IN  e.has_ua /\ e.updates_available

\* C20: check_for_updates returns the cached boolean without scanning,
\* looking up or writing exactly when force_check is false and the cache
\* holds an entry for the model stamped less than 3600 seconds ago (an entry
\* without a timestamp counts as stamped at 0); an entry aged exactly 3600
\* seconds, and any entry when force_check is true, is followed by a real
\* check.
C20_AnsweredFromCacheIffFresh ==
    last.op = "check" =>
        /\ (last.scans = 0) = (~last.force /\ last.fresh)
        /\ last.scans \in {0, 1}
        /\ last.scans = 0 =>
               /\ last.saves = 0
               /\ last.remotes = 0
               /\ last.ret = CachedAnswer
        /\ (/\ last.model = M2
            /\ ~last.force
            /\ K2 \in DOMAIN Persisted(file)
            /\ Persisted(file)[K2].has_ts) =>
               (last.scans = 0) = (last.time - Persisted(file)[K2].timestamp < 3600)

\* An unforced check made exactly 3600 seconds after the entry's timestamp
\* scanned the directory.
C20_Witness ==
    /\ last.op = "check"
    /\ last.model = M2
    /\ ~last.force
    /\ K2 \in DOMAIN Persisted(file)
    /\ Persisted(file)[K2].has_ts
    /\ last.time - Persisted(file)[K2].timestamp = 3600
    /\ last.scans = 1

\* The last three parts of a command on a Unix-like system.
PythonPart(command) == SubSeq(command, Len(command) - 2, Len(command))

\* C21 (as stated): a run of the one-click runner with --info and no text,
\* on a supported Python with a working virtual environment, generates and
\* executes the command "python tts_cli.py --info" and does not end with
\* "Command generation failed" and status 1.
C21_InfoNeedsNoText ==
    (/\ run.op = "main"
     /\ run.args.info
     /\ ~run.args.has_text
     /\ run.python_ok
     /\ run.venv_ok
     /\ ~run.nt) =>
        /\ run.executed
        /\ Len(run.command) >= 3
        /\ PythonPart(run.command) = <<"python", "tts_cli.py", "--info">>
        /\ run.exit = 0
        /\ run.message /= "Command generation failed"

\* A run with --info and no text that ended with "Command generation
\* failed" and status 1.
C21_Witness ==
    /\ run.op = "main"
    /\ run.args.info
    /\ ~run.args.has_text
    /\ run.python_ok
    /\ run.venv_ok
    /\ ~run.executed
    /\ run.message = "Command generation failed"
    /\ run.exit = 1

\* C22: generate_speech called with a text that is empty or consists of
\* whitespace only returns False, raises nothing, and makes no update check,
\* no model load and no synthesis call, whatever check_updates says.
C22_BlankTextDoesNothing ==
    (cli.op = "generate_speech" /\ ~TextNotBlank) =>
        /\ ~cli.ret
        /\ ~cli.raised
        /\ cli.events = <<>>

\* A call with a text of a tab and a newline, asked to check for updates,
\* with a model that would load and synthesize.
C22_Witness ==
    /\ cli.op = "generate_speech"
    /\ cli.text = <<"\t", "\n">>
    /\ cli.check_updates
    /\ cli.load_ok
    /\ cli.synth_ok
    /\ ~cli.ret
    /\ cli.events = <<>>

\* C23: with the remote lookup as implemented, starting from a cache file
\* without an entry that says an update is available, no sequence of
\* check_for_updates calls (forced or not) and cleanup_cache calls leads to
\* a cache file with such an entry, and every check_for_updates call
\* returns false.
C23_NeverAnUpdate ==
    /\ \A k \in DOMAIN Persisted(file) :
           ~(Persisted(file)[k].has_ua /\ Persisted(file)[k].updates_available)
    /\ last.op = "check" => ~last.ret

\* A forced check of the local model, made after a cleanup and later than
\* the start, looked up the remote and wrote an entry that says no update.
C23_Witness ==
    /\ last.op = "check"
    /\ last.force
    /\ last.remotes = 1
    /\ last.time > Epoch
    /\ prev.op = "cleanup"
    /\ ~last.ret
    /\ Persisted(file)[CacheKey(last.model)] = Rec(last.time, FALSE)

\* The step is a call of check_for_updates (the clock stands still in it).
QuietCheckStep == now' = now /\ last'.op = "check"

\* The timestamp of the entry of the model checked in the step, as the
\* cache file holds it before the step: Epoch - RateLimit - 1 stands for "no
\* entry" and 0 for an entry without timestamp.
StampBefore ==
    LET key == CacheKey(last'.model)
    IN  IF key \in DOMAIN Persisted(file)
        THEN (IF Persisted(file)[key].has_ts
              THEN Persisted(file)[key].timestamp ELSE 0)
        ELSE Epoch - RateLimit - 1

\* C24: a call of check_for_updates that is answered from the cache saves
\* nothing and leaves the cache file, and with it the entry's timestamp, as
\* it was; a real check that saves stamps the entry with its own time; no
\* other step changes an entry; and no entry of a model is stamped later
\* than now.  So the entry is never younger than the last real check,
\* however many answered calls came since, and an unforced call made 3600
\* seconds or more after the entry's timestamp is a real check.
C24_WindowDoesNotSlide ==
    [][/\ (QuietCheckStep /\ last'.scans = 0) =>
              file' = file /\ last'.saves = 0
       /\ (QuietCheckStep /\ last'.saves = 1) =>
              Persisted(file')[CacheKey(last'.model)].timestamp = now
       /\ (QuietCheckStep /\ ~last'.force /\ now - StampBefore >= 3600) =>
              last'.scans = 1
       /\ QuietCheckStep => StampBefore <= now
       /\ ~QuietCheckStep =>
              \A k \in DOMAIN Persisted(file') :
                  /\ k \in DOMAIN Persisted(file)
                  /\ Persisted(file')[k] = Persisted(file)[k]
    ]_vars

\* An unforced call for the local model was a real check although the call
\* before it, for the same model and less than an hour earlier, had been
\* answered from the cache.
C24_Witness ==
    /\ last.op = "check"
    /\ last.model = M1
    /\ ~last.force
    /\ last.scans = 1
    /\ last.soon
    /\ prev.op = "check"
    /\ prev.model = M1
    /\ prev.hit
    /\ ~prev.force

====
